---- MODULE Spec2Model ----
(***************************************************************************)
(* Model of the Portainer MCP server: the tool catalog (list-tools), the   *)
(* call-tool dispatcher and the upstream client, in the three revisions of *)
(* src/main.ts and the two revisions of the upstream client               *)
(* (src/api/portainer.ts with an environment id per call, and the          *)
(* fixed-environment client).                                              *)
(*                                                                         *)
(* Text is modelled as a sequence of string tokens: a template literal     *)
(* `a ${x} b` is <<"a ", x, " b">> and the empty string is <<>>.            *)
(* A JavaScript scalar is a record [t |-> type, v |-> rendering].          *)
(***************************************************************************)
EXTENDS Integers, Sequences, FiniteSets, TLC

\* ------------------------------------------------------------------ bounds
MaxContainers == 2
MaxInflight == 2
MaxFailures == 2

\* ------------------------------------------------------- JavaScript values
Undef == [t |-> "undefined", v |-> "undefined"]
JTrue == [t |-> "boolean", v |-> "true"]
JFalse == [t |-> "boolean", v |-> "false"]
Str(s) == [t |-> "string", v |-> s]
Num(s) == [t |-> "number", v |-> s]
Obj(s) == [t |-> "object", v |-> s]
EmptyObj == Obj("{}")

\* ToBoolean of a scalar, as used by `||` and `!`
Truthy(x) ==
    /\ x.t # "undefined"
    /\ ~(x.t = "boolean" /\ x.v = "false")
    /\ ~(x.t = "string" /\ x.v = "")
    /\ ~(x.t = "number" /\ x.v = "0")

\* the left operand passed on as it is, without a fallback
OrElseNone(a, b) == a

\* a || b on scalars
OrElse(a, b) == IF Truthy(a) THEN a ELSE b

\* a default parameter value: used when the argument is undefined
Default(a, d) == IF a = Undef THEN d ELSE a

\* property access on the argument bag: a missing key reads as undefined
Get(args, k) == IF k \in DOMAIN args THEN args[k] ELSE Undef

\* an object literal {k1: v1, ...} whose keys are K
NoFields == [k \in {} |-> Undef]

\* ------------------------------------------------------------- revisions
Revisions == {"fixed", "envId", "svc"}

\* the revisions whose upstream client reads the environment from the process
FixedEnv(rv) == rv \in {"fixed", "svc"}

\* ------------------------------------------------- the catalog (list-tools)
\* a tool descriptor: its name, the properties of its input schema and the
\* schema's required list (descriptions and property types are left out)
Tool(name, props, required) == [name |-> name, props |-> props, required |-> required]

LogProps == {"stdout", "stderr", "follow", "timestamps", "tail"}

\* fixed-environment revision, src/main.ts 41-261
ListToolsFixed ==
    << Tool("GetDockerContainers", {}, <<>>),
       Tool("CreateDockerContainer",
            {"containerName", "image", "exposedPorts", "hostConfig"},
            <<"containerName", "image">>),
       Tool("StartDockerContainer", {"containerId"}, <<"containerId">>),
       Tool("DeleteDockerContainer", {"containerId", "force"}, <<"containerId">>),
       Tool("GetContainerLogs", {"containerId"} \cup LogProps, <<"containerId">>),
       Tool("UpdateContainer",
            {"containerId", "memory", "memorySwap", "restartPolicy"},
            <<"containerId">>),
       Tool("DeleteUnwantedContainers", {}, <<>>),
       Tool("GetImages", {}, <<>>),
       Tool("DeleteImageBuilderCache", {}, <<>>),
       Tool("DeleteUnusedImages", {}, <<>>),
       Tool("GetNetworks", {}, <<>>),
       Tool("GetServices", {}, <<>>),
       Tool("GetServiceLogs", {"serviceId"} \cup LogProps, <<"serviceId">>) >>

\* envId revision, src/main.ts 540-839
ListToolsEnv ==
    << Tool("FETCH_DOCKER_CONTAINERS", {"envId"}, <<"envId">>),
       Tool("CREATE_DOCKER_CONTAINER",
            {"envId", "containerName", "image", "exposedPorts", "hostConfig"},
            <<"envId", "containerName", "image">>),
       Tool("START_DOCKER_CONTAINER", {"envId", "containerId"},
            <<"envId", "containerId">>),
       Tool("DELETE_DOCKER_CONTAINER", {"envId", "containerId", "force"},
            <<"envId", "containerId">>),
       Tool("FETCH_CONTAINER_LOGS", {"envId", "containerId"} \cup LogProps,
            <<"envId", "containerId">>),
       Tool("UPDATE_CONTAINER_RESOURCE_LIMITS",
            {"envId", "containerId", "memory", "memorySwap", "restartPolicy"},
            <<"envId", "containerId">>),
       Tool("DELETE_STOPPED_CONTAINERS", {"envId"}, <<"envId">>),
       Tool("FETCH_IMAGES", {"envId"}, <<"envId">>),
       Tool("DELETE_IMAGE_BUILD_CACHE", {"envId"}, <<"envId">>),
       Tool("DELETE_UNUSED_IMAGES", {"envId"}, <<"envId">>),
       Tool("FETCH_NETWORKS", {"envId"}, <<"envId">>),
       Tool("INSPECT_NETWORK", {"envId", "networkId"}, <<"envId", "networkId">>),
       Tool("FETCH_SERVICES", {"envId"}, <<"envId">>),
       Tool("FETCH_SERVICE_LOG", {"envId", "serviceId"} \cup LogProps,
            <<"envId", "serviceId">>) >>

\* service-inspect revision, src/main.ts 1016-1248
ListToolsSvc ==
    << Tool("DockerContainers", {}, <<>>),
       Tool("CreateDockerContainer",
            {"containerName", "image", "exposedPorts", "hostConfig"},
            <<"containerName", "image">>),
       Tool("StartDockerContainer", {"containerId"}, <<"containerId">>),
       Tool("DeleteDockerContainer", {"containerId", "force"}, <<"containerId">>),
       Tool("ContainerLogs", {"containerId", "since", "timestamps", "tail"},
            <<"containerId">>),
       Tool("UpdateContainer",
            {"containerId", "memory", "memorySwap", "restartPolicy"},
            <<"containerId">>),
       Tool("DeleteUnwantedContainers", {}, <<>>),
       Tool("GetImages", {}, <<>>),
       Tool("DeleteImageBuilderCache", {}, <<>>),
       Tool("DeleteUnusedImages", {}, <<>>),
       Tool("GetNetworks", {}, <<>>),
       Tool("GetServices", {}, <<>>),
       Tool("ServiceLogs", {"serviceId", "since", "timestamps", "tail"},
            <<"serviceId">>),
       Tool("InspectService", {"serviceId"}, <<"serviceId">>),
       Tool("UpdateService", {"serviceId"}, <<"serviceId">>) >>

\* a catalog that leaves out the last tool of the revision
ListToolsShort(rv) ==
    LET all == CASE rv = "fixed" -> ListToolsFixed
                 [] rv = "envId" -> ListToolsEnv
                 [] rv = "svc" -> ListToolsSvc
    IN SubSeq(all, 1, Len(all) - 1)

ListTools(rv) ==
    CASE rv = "fixed" -> ListToolsFixed
      [] rv = "envId" -> ListToolsEnv
      [] rv = "svc" -> ListToolsSvc

\* ------------------------------------------------------------------ state
Reqs == 1 .. MaxInflight

VARIABLES
    rev,      \* which revision of the server is running
    config,   \* the client configuration read at start-up
    pc,       \* per request slot: "idle", "awaiting" (at the upstream call), "done"
    req,      \* the request of the slot: [kind, name, hasArgs, args]
    call,     \* the upstream HTTP request the slot's handler issued (or NoCall)
    ncalls,   \* how many upstream requests the slot's handler has issued
    resp,     \* how the upstream request of the slot settled (or NoResp)
    out,      \* what the handler produced: a reply, or a fault that left it
    failures  \* history: how many invocations have ended in failure since
              \* start-up, counted up to MaxFailures; no handler reads it

vars == <<rev, config, pc, req, call, ncalls, resp, out, failures>>

TimeoutMs == 30000

\* ------------------------------------------------------- upstream requests
\* template-literal interpolation `${x}` of a scalar
Tpl(x) == x.v

\* a client instance created without the headers option
HttpReqNoKey(method, path, params, data) ==
    [method |-> method, path |-> path, params |-> params, data |-> data,
     baseURL |-> config.baseURL, headers |-> NoFields, timeout |-> config.timeout]

\* portainerClient.get/post/delete(path, ...): the request carries the
\* instance's baseURL, headers and timeout
HttpReq(method, path, params, data) ==
    [method |-> method, path |-> path, params |-> params, data |-> data,
     baseURL |-> config.baseURL,
     headers |-> [h \in {"X-API-Key"} |-> config.apiKey],
     timeout |-> config.timeout]

NoCall == [k |-> "none", fn |-> "none"]

LogParams(stdout, stderr, follow, timestamps, tail) ==
    [stdout |-> stdout, stderr |-> stderr, follow |-> follow,
     timestamps |-> timestamps, tail |-> tail]

\* --- src/api/portainer.ts: the client that takes the environment per call
fetchDockerContainers(envId) ==
    HttpReq("GET", <<"/api/endpoints/", Tpl(envId), "/docker/containers/json">>,
            [all |-> JTrue], NoFields)

createDockerContainer(envId, containerName, image, exposedPorts, hostConfig) ==
    HttpReq("POST", <<"/api/endpoints/", Tpl(envId), "/docker/containers/create">>,
            NoFields,
            [name |-> containerName, Image |-> image,
             ExposedPorts |-> exposedPorts, HostConfig |-> hostConfig])

startDockerContainer(envId, containerId) ==
    HttpReq("POST",
            <<"/api/endpoints/", Tpl(envId), "/docker/containers/", Tpl(containerId), "/start">>,
            NoFields, NoFields)

deleteDockerContainerNoDefault(envId, containerId, force) ==
    HttpReq("DELETE",
            <<"/api/endpoints/", Tpl(envId), "/docker/containers/", Tpl(containerId)>>,
            [force |-> force], NoFields)

deleteDockerContainer(envId, containerId, force) ==
    HttpReq("DELETE",
            <<"/api/endpoints/", Tpl(envId), "/docker/containers/", Tpl(containerId)>>,
            [force |-> Default(force, JFalse)], NoFields)

fetchContainerLogs(envId, containerId, stdout, stderr, follow, timestamps, tail) ==
    HttpReq("GET",
            <<"/api/endpoints/", Tpl(envId), "/docker/containers/", Tpl(containerId), "/logs">>,
            LogParams(Default(stdout, JTrue), Default(stderr, JTrue),
                      Default(follow, JFalse), Default(timestamps, JFalse),
                      Default(tail, Num("10"))),
            NoFields)

updateContainerResourceLimits(envId, containerId, memory, memorySwap, restartPolicy) ==
    HttpReq("POST",
            <<"/api/endpoints/", Tpl(envId), "/docker/containers/", Tpl(containerId), "/update">>,
            NoFields,
            [Memory |-> memory, MemorySwap |-> memorySwap, RestartPolicy |-> restartPolicy])

deleteStoppedContainers(envId) ==
    HttpReq("DELETE", <<"/api/endpoints/", Tpl(envId), "/docker/containers/prune">>,
            [all |-> JTrue], NoFields)

fetchImages(envId) ==
    HttpReq("GET", <<"/api/endpoints/", Tpl(envId), "/docker/images/json">>,
            NoFields, NoFields)

deleteImageBuildCache(envId) ==
    HttpReq("DELETE", <<"/api/endpoints/", Tpl(envId), "/docker/images/prune">>,
            NoFields, NoFields)

deleteUnusedImages(envId) ==
    HttpReq("DELETE", <<"/api/endpoints/", Tpl(envId), "/docker/images/prune">>,
            NoFields, NoFields)

fetchNetworks(envId) ==
    HttpReq("GET", <<"/api/endpoints/", Tpl(envId), "/docker/networks">>,
            NoFields, NoFields)

inspectNetwork(envId, networkId) ==
    HttpReq("GET",
            <<"/api/endpoints/", Tpl(envId), "/docker/networks/", Tpl(networkId)>>,
            NoFields, NoFields)

fetchServices(envId) ==
    HttpReq("GET", <<"/api/endpoints/", Tpl(envId), "/docker/services">>,
            NoFields, NoFields)

fetchServiceLog(envId, serviceId, stdout, stderr, follow, timestamps, tail) ==
    HttpReq("GET",
            <<"/api/endpoints/", Tpl(envId), "/docker/services/", Tpl(serviceId), "/logs">>,
            LogParams(Default(stdout, JTrue), Default(stderr, JTrue),
                      Default(follow, JFalse), Default(timestamps, JFalse),
                      Default(tail, Num("10"))),
            NoFields)

\* --- the fixed-environment client: the environment is PORTAINER_ENV_ID
EnvPath == <<"/api/endpoints/", Tpl(config.envId)>>

fetchDockerContainersFixed ==
    HttpReq("GET", EnvPath \o <<"/docker/containers/json">>, [all |-> JTrue], NoFields)

createDockerContainerFixed(containerName, image, exposedPorts, hostConfig) ==
    HttpReq("POST", EnvPath \o <<"/docker/containers/create">>, NoFields,
            [name |-> containerName, Image |-> image,
             ExposedPorts |-> exposedPorts, HostConfig |-> hostConfig])

startDockerContainerFixed(containerId) ==
    HttpReq("POST", EnvPath \o <<"/docker/containers/", Tpl(containerId), "/start">>,
            NoFields, NoFields)

deleteDockerContainerFixed(containerId, force) ==
    HttpReq("DELETE", EnvPath \o <<"/docker/containers/", Tpl(containerId)>>,
            [force |-> Default(force, JFalse)], NoFields)

fetchContainerLogsFixed(containerId, stdout, stderr, follow, timestamps, tail) ==
    HttpReq("GET", EnvPath \o <<"/docker/containers/", Tpl(containerId), "/logs">>,
            LogParams(Default(stdout, JTrue), Default(stderr, JTrue),
                      Default(follow, JFalse), Default(timestamps, JFalse),
                      Default(tail, Num("10"))),
            NoFields)

updateContainerResourceLimitsFixed(containerId, memory, memorySwap, restartPolicy) ==
    HttpReq("POST", EnvPath \o <<"/docker/containers/", Tpl(containerId), "/update">>,
            NoFields,
            [Memory |-> memory, MemorySwap |-> memorySwap, RestartPolicy |-> restartPolicy])

pruneContainer ==
    HttpReq("DELETE", EnvPath \o <<"/docker/containers/prune">>, [all |-> JTrue], NoFields)

fetchImagesFixed ==
    HttpReq("GET", EnvPath \o <<"/docker/images/json">>, NoFields, NoFields)

deleteImageBuildCacheFixed ==
    HttpReq("DELETE", EnvPath \o <<"/docker/images/prune">>, NoFields, NoFields)

deleteUnusedImagesFixed ==
    HttpReq("DELETE", EnvPath \o <<"/docker/images/prune">>, NoFields, NoFields)

fetchNetworksFixed ==
    HttpReq("GET", EnvPath \o <<"/docker/networks">>, NoFields, NoFields)

fetchServicesFixed ==
    HttpReq("GET", EnvPath \o <<"/docker/services">>, NoFields, NoFields)

fetchServiceLogFixed(serviceId, stdout, stderr, follow, timestamps, tail) ==
    HttpReq("GET", EnvPath \o <<"/docker/services/", Tpl(serviceId), "/logs">>,
            LogParams(Default(stdout, JTrue), Default(stderr, JTrue),
                      Default(follow, JFalse), Default(timestamps, JFalse),
                      Default(tail, Num("10"))),
            NoFields)

\* the two client functions the service-inspect revision imports and whose
\* source is not in the repository snapshot: one upstream call each
inspectService(serviceId) ==
    HttpReq("GET", EnvPath \o <<"/docker/services/", Tpl(serviceId)>>, NoFields, NoFields)

restartDockerService(serviceId) ==
    HttpReq("POST", EnvPath \o <<"/docker/services/", Tpl(serviceId), "/update">>,
            NoFields, NoFields)

\* ------------------------------------------------- upstream response bodies
\* a container as upstream reports it (the fields the server reads)
Port80 == [PublicPort |-> "80", PrivatePort |-> "8080", Type |-> "tcp"]

Containers ==
    { [Id |-> id, Names |-> names, State |-> st.State, Status |-> st.Status,
       Ports |-> st.Ports] :
        id \in {"a", "b"},
        names \in {<<>>, <<"/web">>, <<"/db", "/alias">>},
        st \in { [State |-> "running", Status |-> "Up 2 hours", Ports |-> <<Port80>>],
                 [State |-> "exited", Status |-> "Exited (0)", Ports |-> <<>>] } }

RECURSIVE SeqsUpTo(_, _)
SeqsUpTo(S, n) ==
    IF n = 0 THEN {<<>>}
    ELSE LET shorter == SeqsUpTo(S, n - 1)
         IN shorter \cup {Append(q, x) : q \in {p \in shorter : Len(p) = n - 1}, x \in S}

Images ==
    { [Id |-> "sha256:1", RepoTags |-> << <<"nginx:latest">> >>],
      [Id |-> "sha256:2", RepoTags |-> << <<"ghcr.io", "acme", "api:1">> >>],
      [Id |-> "sha256:3", RepoTags |-> <<>>] }

Networks ==
    { [Name |-> "bridge", Id |-> "n1", Created |-> "2024-01-01", Scope |-> "local",
       Driver |-> "bridge"] }

Services ==
    { [ID |-> "s1", Name |-> <<"web">>, Image |-> <<"nginx">>,
       Ports |-> << [PublishedPort |-> "80", TargetPort |-> "8080", Protocol |-> "tcp"] >>],
      [ID |-> "s2", Name |-> <<>>, Image |-> <<>>, Ports |-> <<>>] }

\* the 2xx bodies upstream sends for each client function (axios response.data)
Bodies(fn) ==
    CASE fn = "fetchDockerContainers" ->
            {[t |-> "containers", list |-> l] : l \in SeqsUpTo(Containers, MaxContainers)}
      [] fn = "createDockerContainer" ->
            {[t |-> "created", Id |-> "new1", Warnings |-> w] : w \in {<<>>, <<"w1">>, <<"w1", "w2">>}}
      [] fn \in {"startDockerContainer", "deleteDockerContainer",
                 "updateContainerResourceLimits", "restartDockerService"} ->
            {[t |-> "empty"]}
      [] fn \in {"fetchContainerLogs", "fetchServiceLog"} ->
            {[t |-> "text", s |-> s] : s \in {<<>>, <<"started">>}}
      [] fn \in {"deleteStoppedContainers", "pruneContainer"} ->
            {[t |-> "prunedContainers", ContainersDeleted |-> d, SpaceReclaimed |-> "0"] :
                d \in {<<>>, <<"a">>}}
      [] fn \in {"deleteImageBuildCache", "deleteUnusedImages"} ->
            {[t |-> "prunedImages", ImagesDeleted |-> d, SpaceReclaimed |-> "0"] :
                d \in {<<>>, <<"sha256:3">>}}
      [] fn = "fetchImages" ->
            {[t |-> "images", list |-> l] : l \in SeqsUpTo(Images, 1)}
      [] fn = "fetchNetworks" ->
            {[t |-> "networks", list |-> l] : l \in SeqsUpTo(Networks, 1)}
      [] fn = "inspectNetwork" ->
            {[t |-> "network", net |-> n] : n \in Networks}
      [] fn = "fetchServices" ->
            {[t |-> "services", list |-> l] : l \in SeqsUpTo(Services, 1)}
      [] fn = "inspectService" ->
            {[t |-> "service", svc |-> x] : x \in Services}
      [] OTHER -> {}

Undefined == [t |-> "undefined"]

\* ------------------------------------------------------------------ errors
\* a thrown value: an axios error (with or without a response, with or
\* without a request) or a plain Error
JsError(message) ==
    [isAxios |-> FALSE, hasResponse |-> FALSE, status |-> "", data |-> NoFields,
     hasRequest |-> FALSE, message |-> message]

ErrorBodies == { NoFields, [message |-> Str("")], [message |-> Str("No such container")] }

UpstreamErrors ==
    { [isAxios |-> TRUE, hasResponse |-> TRUE, status |-> st, data |-> d,
       hasRequest |-> TRUE, message |-> <<"Request failed with status code ", st>>] :
        st \in {"404", "500"}, d \in ErrorBodies }
    \cup
    { [isAxios |-> TRUE, hasResponse |-> FALSE, status |-> "", data |-> NoFields,
       hasRequest |-> TRUE, message |-> m] :
        m \in {<<"timeout of 30000ms exceeded">>, <<"Network Error">>} }
    \cup
    { [isAxios |-> TRUE, hasResponse |-> FALSE, status |-> "", data |-> NoFields,
       hasRequest |-> FALSE, message |-> <<"Invalid URL">>] }
    \cup
    { JsError(m) : m \in {<<>>, <<"socket hang up">>} }

\* how the awaited axios promise of a client function settles
Outcomes(fn) ==
    {[k |-> "ok", data |-> b] : b \in Bodies(fn)}
    \cup {[k |-> "error", error |-> e] : e \in UpstreamErrors}

NoResp == [k |-> "none"]

\* JSON.stringify of an error response body
JsonOfFields(d) ==
    IF DOMAIN d = {} THEN <<"{}">> ELSE <<"{\"message\":\"", d.message.v, "\"}">>

Return(v) == [k |-> "return", value |-> v]
Throw(e) == [k |-> "throw", error |-> e]

\* src/api/portainer.ts handleRequest: unwrap the body or classify the failure
handleRequest(o) ==
    IF o.k = "ok" THEN Return(o.data)
    ELSE IF o.error.isAxios
         THEN IF o.error.hasResponse
              THEN Throw(JsError(<<"Portainer API error: ", o.error.status, " - ">>
                                 \o JsonOfFields(o.error.data)))
              ELSE IF o.error.hasRequest
                   THEN Throw(JsError(<<"No response from Portainer API: ">> \o o.error.message))
                   ELSE Throw(JsError(<<"Error setting up request to Portainer API: ">>
                                      \o o.error.message))
         ELSE Throw(o.error)

\* the fixed-environment client awaits the request bare: a rejection
\* propagates as axios raised it; functions without a return give undefined
AwaitFixed(fn, o) ==
    IF o.k = "ok"
    THEN IF fn \in {"startDockerContainer", "deleteDockerContainer",
                    "updateContainerResourceLimits"}
         THEN Return(Undefined)
         ELSE Return(o.data)
    ELSE Throw(o.error)

\* ----------------------------------------------------------------- replies
TextOf(tokens) == [def |-> TRUE, s |-> tokens]
NoText == [def |-> FALSE, s |-> <<>>]

\* { content: [{ type: "text", text }] }
Content(text) == [kind |-> "content", text |-> text]
\* { result: value }
Result(v) == [kind |-> "result", value |-> v]
\* the handler's promise rejected: the error left the handler
Fault(e) == [kind |-> "fault", error |-> e]
NoOut == [kind |-> "none"]

\* Array.prototype.join on an array of strings
RECURSIVE JoinWith(_, _)
JoinWith(items, sep) ==
    IF Len(items) = 0 THEN <<>>
    ELSE IF Len(items) = 1 THEN items[1]
    ELSE items[1] \o sep \o JoinWith(Tail(items), sep)

\* s || fallback on strings: the empty string is falsy
StrOr(s, fallback) == IF s = <<>> THEN fallback ELSE s

\* --- the templated summaries of the fixed-environment revision
PortText(p) == <<p.PublicPort, ":", p.PrivatePort, "/", p.Type>>

ContainerLine(c) ==
    <<"ContainerId: ", c.Id, ", Name: ">>
    \o StrOr(IF Len(c.Names) > 0 THEN <<c.Names[1]>> ELSE <<>>, <<"unknown">>)
    \o <<", Ports: ">>
    \o StrOr(JoinWith([i \in 1 .. Len(c.Ports) |-> PortText(c.Ports[i])], <<", ">>), <<"none">>)
    \o <<", State: ", c.State, ", Status: ", c.Status>>

ContainersTextNewestFirst(list) ==
    JoinWith([i \in 1 .. Len(list) |-> ContainerLine(list[Len(list) + 1 - i])], <<"\n">>)

ContainersText(list) ==
    JoinWith([i \in 1 .. Len(list) |-> ContainerLine(list[i])], <<"\n">>)

ImageLine(image) ==
    LET name == IF Len(image.RepoTags) > 0
                THEN JoinWith([i \in 1 .. Len(image.RepoTags[1]) |-> <<image.RepoTags[1][i]>>], <<"/">>)
                ELSE <<"untagged">>
        registry == IF Len(image.RepoTags) > 0 /\ Len(image.RepoTags[1]) > 1
                    THEN image.RepoTags[1][1] ELSE "docker.io"
    IN <<"Name: ">> \o name \o <<", Registry: ", registry, ", Id: ", image.Id>>

NetworkLine(n) ==
    <<"Name: ", n.Name, ", Id: ", n.Id, ", Created: ", n.Created,
      ", Scope: ", n.Scope, ", Driver: ", n.Driver>>

ServiceLine(x) ==
    <<"Name: ">> \o StrOr(x.Name, <<"N/A">>) \o <<", Image: ">> \o StrOr(x.Image, <<"N/A">>)
    \o <<", Ports: ">>
    \o StrOr(JoinWith([i \in 1 .. Len(x.Ports) |->
                        <<x.Ports[i].PublishedPort, "->", x.Ports[i].TargetPort, "/",
                          x.Ports[i].Protocol>>], <<", ">>),
             <<"None">>)

\* --- JSON.stringify(result, null, 2) of the service-inspect revision
JsonString(x) == <<"\"", x, "\"">>

JsonArray(items) ==
    IF Len(items) = 0 THEN <<"[]">> ELSE <<"[">> \o JoinWith(items, <<",">>) \o <<"]">>

JsonStrings(xs) == JsonArray([i \in 1 .. Len(xs) |-> JsonString(xs[i])])

JsonContainer(c) ==
    <<"{", "\"Id\": ">> \o JsonString(c.Id)
    \o <<",", "\"Names\": ">> \o JsonStrings(c.Names)
    \o <<",", "\"State\": ">> \o JsonString(c.State)
    \o <<",", "\"Status\": ">> \o JsonString(c.Status)
    \o <<",", "\"Ports\": ">>
    \o JsonArray([i \in 1 .. Len(c.Ports) |->
                   <<"{\"PublicPort\": ", c.Ports[i].PublicPort, ", \"PrivatePort\": ",
                     c.Ports[i].PrivatePort, ", \"Type\": ">> \o JsonString(c.Ports[i].Type)
                   \o <<"}">>])
    \o <<"}">>

JsonImage(image) ==
    <<"{", "\"Id\": ">> \o JsonString(image.Id) \o <<",", "\"RepoTags\": ">>
    \o JsonArray([i \in 1 .. Len(image.RepoTags) |->
                   <<"\"">> \o JoinWith([j \in 1 .. Len(image.RepoTags[i]) |->
                                           <<image.RepoTags[i][j]>>], <<"/">>) \o <<"\"">>])
    \o <<"}">>

JsonNetwork(n) ==
    <<"{", "\"Name\": ">> \o JsonString(n.Name) \o <<",", "\"Id\": ">> \o JsonString(n.Id)
    \o <<",", "\"Created\": ">> \o JsonString(n.Created)
    \o <<",", "\"Scope\": ">> \o JsonString(n.Scope)
    \o <<",", "\"Driver\": ">> \o JsonString(n.Driver) \o <<"}">>

JsonService(x) ==
    <<"{", "\"ID\": ">> \o JsonString(x.ID)
    \o <<",", "\"Spec\": {\"Name\": \"">> \o x.Name \o <<"\", \"Image\": \"">> \o x.Image
    \o <<"\"}", ",", "\"Ports\": ">>
    \o JsonArray([i \in 1 .. Len(x.Ports) |->
                   <<"{\"PublishedPort\": ", x.Ports[i].PublishedPort, ", \"TargetPort\": ",
                     x.Ports[i].TargetPort, ", \"Protocol\": ">>
                   \o JsonString(x.Ports[i].Protocol) \o <<"}">>])
    \o <<"}">>

\* JSON.stringify(undefined) is undefined, not a string
JSONStringify(v) ==
    CASE v.t = "undefined" -> NoText
      [] v.t = "empty" -> TextOf(<<"\"\"">>)
      [] v.t = "text" -> TextOf(<<"\"">> \o v.s \o <<"\"">>)
      [] v.t = "containers" ->
            TextOf(JsonArray([i \in 1 .. Len(v.list) |-> JsonContainer(v.list[i])]))
      [] v.t = "images" ->
            TextOf(JsonArray([i \in 1 .. Len(v.list) |-> JsonImage(v.list[i])]))
      [] v.t = "networks" ->
            TextOf(JsonArray([i \in 1 .. Len(v.list) |-> JsonNetwork(v.list[i])]))
      [] v.t = "network" -> TextOf(JsonNetwork(v.net))
      [] v.t = "services" ->
            TextOf(JsonArray([i \in 1 .. Len(v.list) |-> JsonService(v.list[i])]))
      [] v.t = "service" -> TextOf(JsonService(v.svc))
      [] v.t = "created" ->
            TextOf(<<"{", "\"Id\": ">> \o JsonString(v.Id) \o <<",", "\"Warnings\": ">>
                   \o JsonStrings(v.Warnings) \o <<"}">>)
      [] v.t = "prunedContainers" ->
            TextOf(<<"{", "\"ContainersDeleted\": ">> \o JsonStrings(v.ContainersDeleted)
                   \o <<",", "\"SpaceReclaimed\": ", v.SpaceReclaimed, "}">>)
      [] v.t = "prunedImages" ->
            TextOf(<<"{", "\"ImagesDeleted\": ">> \o JsonStrings(v.ImagesDeleted)
                   \o <<",", "\"SpaceReclaimed\": ", v.SpaceReclaimed, "}">>)

\* ------------------------------------------------------ call-tool handlers
\* a switch case reaches its await: the client function and its HTTP request
Await(fn, http) == [k |-> "call", fn |-> fn, http |-> http]

NoArguments(name) == JsError(<<"No arguments provided for tool: ", name>>)
UnknownTool(name) == JsError(<<"Unknown tool: ", name>>)

\* --- fixed-environment revision, src/main.ts 263-492
SwitchFixed(name, a) ==
    CASE name = "GetDockerContainers" ->
            Await("fetchDockerContainers", fetchDockerContainersFixed)
      [] name = "CreateDockerContainer" ->
            Await("createDockerContainer",
                  createDockerContainerFixed(Get(a, "containerName"), Get(a, "image"),
                                             OrElse(Get(a, "exposedPorts"), EmptyObj),
                                             OrElse(Get(a, "hostConfig"), EmptyObj)))
      [] name = "StartDockerContainer" ->
            Await("startDockerContainer", startDockerContainerFixed(Get(a, "containerId")))
      [] name = "DeleteDockerContainer" ->
            Await("deleteDockerContainer",
                  deleteDockerContainerFixed(Get(a, "containerId"), Get(a, "force")))
      [] name = "GetContainerLogs" ->
            Await("fetchContainerLogs",
                  fetchContainerLogsFixed(Get(a, "containerId"), Get(a, "stdout"),
                                          Get(a, "stderr"), Get(a, "follow"),
                                          Get(a, "timestamps"), Get(a, "tail")))
      [] name = "UpdateContainer" ->
            Await("updateContainerResourceLimits",
                  updateContainerResourceLimitsFixed(Get(a, "containerId"), Get(a, "memory"),
                                                     Get(a, "memorySwap"),
                                                     Get(a, "restartPolicy")))
      [] name = "DeleteUnwantedContainers" -> Await("pruneContainer", pruneContainer)
      [] name = "GetImages" -> Await("fetchImages", fetchImagesFixed)
      [] name = "DeleteImageBuilderCache" ->
            Await("deleteImageBuildCache", deleteImageBuildCacheFixed)
      [] name = "DeleteUnusedImages" -> Await("deleteUnusedImages", deleteUnusedImagesFixed)
      [] name = "GetNetworks" -> Await("fetchNetworks", fetchNetworksFixed)
      [] name = "GetServices" -> Await("fetchServices", fetchServicesFixed)
      [] name = "GetServiceLogs" ->
            Await("fetchServiceLog",
                  fetchServiceLogFixed(Get(a, "serviceId"), Get(a, "stdout"),
                                       Get(a, "stderr"), Get(a, "follow"),
                                       Get(a, "timestamps"), Get(a, "tail")))
      [] OTHER -> Throw(UnknownTool(name))

OperationSuccessful(a) ==
    <<"Operation successful - Container Id: ", Tpl(Get(a, "containerId")),
      ", Env Id: ", Tpl(Get(a, "envId"))>>

\* what each case does with the awaited result
FormatFixed(name, a, result) ==
    CASE name = "GetDockerContainers" ->
            Return(Content(TextOf(ContainersText(result.list))))
      [] name = "CreateDockerContainer" ->
            Return(Content(TextOf(
                <<"Container created successfully with Id: ", result.Id>>
                \o IF Len(result.Warnings) > 0
                   THEN <<"\nWarnings: ">>
                        \o JoinWith([i \in 1 .. Len(result.Warnings) |-> <<result.Warnings[i]>>],
                                    <<", ">>)
                   ELSE <<>>)))
      [] name \in {"StartDockerContainer", "DeleteDockerContainer", "UpdateContainer"} ->
            Return(Content(TextOf(OperationSuccessful(a))))
      \* result is the log text, a string: result.message is undefined
      [] name \in {"GetContainerLogs", "GetServiceLogs"} -> Return(Content(NoText))
      [] name \in {"DeleteUnwantedContainers", "DeleteImageBuilderCache"} ->
            Return(Content(TextOf(<<"Operation successful - Env Id: ", Tpl(Get(a, "envId"))>>)))
      [] name = "GetImages" ->
            Return(Content(TextOf(
                JoinWith([i \in 1 .. Len(result.list) |-> ImageLine(result.list[i])], <<"\n">>))))
      \* result is the prune summary, an object: it has no map
      [] name = "DeleteUnusedImages" -> Throw(JsError(<<"result.map is not a function">>))
      [] name = "GetNetworks" ->
            Return(Content(TextOf(
                JoinWith([i \in 1 .. Len(result.list) |-> NetworkLine(result.list[i])], <<"\n">>))))
      [] name = "GetServices" ->
            Return(Content(TextOf(
                JoinWith([i \in 1 .. Len(result.list) |-> ServiceLine(result.list[i])], <<"\n">>))))

\* --- envId revision, src/main.ts 841-968
SwitchEnv(name, a) ==
    CASE name = "FETCH_DOCKER_CONTAINERS" ->
            Await("fetchDockerContainers", fetchDockerContainers(Get(a, "envId")))
      [] name = "CREATE_DOCKER_CONTAINER" ->
            Await("createDockerContainer",
                  createDockerContainer(Get(a, "envId"), Get(a, "containerName"),
                                        Get(a, "image"),
                                        OrElse(Get(a, "exposedPorts"), EmptyObj),
                                        OrElse(Get(a, "hostConfig"), EmptyObj)))
      [] name = "START_DOCKER_CONTAINER" ->
            Await("startDockerContainer",
                  startDockerContainer(Get(a, "envId"), Get(a, "containerId")))
      [] name = "DELETE_DOCKER_CONTAINER" ->
            Await("deleteDockerContainer",
                  deleteDockerContainer(Get(a, "envId"), Get(a, "containerId"),
                                        Get(a, "force")))
      [] name = "FETCH_CONTAINER_LOGS" ->
            Await("fetchContainerLogs",
                  fetchContainerLogs(Get(a, "envId"), Get(a, "containerId"),
                                     Get(a, "stdout"), Get(a, "stderr"), Get(a, "follow"),
                                     Get(a, "timestamps"), Get(a, "tail")))
      [] name = "UPDATE_CONTAINER_RESOURCE_LIMITS" ->
            Await("updateContainerResourceLimits",
                  updateContainerResourceLimits(Get(a, "envId"), Get(a, "containerId"),
                                                Get(a, "memory"), Get(a, "memorySwap"),
                                                Get(a, "restartPolicy")))
      [] name = "DELETE_STOPPED_CONTAINERS" ->
            Await("deleteStoppedContainers", deleteStoppedContainers(Get(a, "envId")))
      [] name = "FETCH_IMAGES" -> Await("fetchImages", fetchImages(Get(a, "envId")))
      [] name = "DELETE_IMAGE_BUILD_CACHE" ->
            Await("deleteImageBuildCache", deleteImageBuildCache(Get(a, "envId")))
      [] name = "DELETE_UNUSED_IMAGES" ->
            Await("deleteUnusedImages", deleteUnusedImages(Get(a, "envId")))
      [] name = "FETCH_NETWORKS" -> Await("fetchNetworks", fetchNetworks(Get(a, "envId")))
      [] name = "INSPECT_NETWORK" ->
            Await("inspectNetwork", inspectNetwork(Get(a, "envId"), Get(a, "networkId")))
      [] name = "FETCH_SERVICES" -> Await("fetchServices", fetchServices(Get(a, "envId")))
      [] name = "FETCH_SERVICE_LOG" ->
            Await("fetchServiceLog",
                  fetchServiceLog(Get(a, "envId"), Get(a, "serviceId"),
                                  Get(a, "stdout"), Get(a, "stderr"), Get(a, "follow"),
                                  Get(a, "timestamps"), Get(a, "tail")))
      [] OTHER -> Throw(UnknownTool(name))

\* every case: return { result: <the awaited result> }
FormatEnv(name, a, result) == Return(Result(result))

\* --- service-inspect revision, src/main.ts 1250-1459
SwitchSvc(name, a) ==
    CASE name = "DockerContainers" ->
            Await("fetchDockerContainers", fetchDockerContainersFixed)
      [] name = "CreateDockerContainer" ->
            Await("createDockerContainer",
                  createDockerContainerFixed(Get(a, "containerName"), Get(a, "image"),
                                             OrElse(Get(a, "exposedPorts"), EmptyObj),
                                             OrElse(Get(a, "hostConfig"), EmptyObj)))
      [] name = "StartDockerContainer" ->
            Await("startDockerContainer", startDockerContainerFixed(Get(a, "containerId")))
      [] name = "DeleteDockerContainer" ->
            Await("deleteDockerContainer",
                  deleteDockerContainerFixed(Get(a, "containerId"), Get(a, "force")))
      \* four positional arguments: the fifth and sixth parameters get undefined
      [] name = "ContainerLogs" ->
            Await("fetchContainerLogs",
                  fetchContainerLogsFixed(Get(a, "containerId"), Get(a, "since"),
                                          Get(a, "timestamps"), Get(a, "tail"),
                                          Undef, Undef))
      [] name = "UpdateContainer" ->
            Await("updateContainerResourceLimits",
                  updateContainerResourceLimitsFixed(Get(a, "containerId"), Get(a, "memory"),
                                                     Get(a, "memorySwap"),
                                                     Get(a, "restartPolicy")))
      [] name = "DeleteUnwantedContainers" -> Await("pruneContainer", pruneContainer)
      [] name = "GetImages" -> Await("fetchImages", fetchImagesFixed)
      [] name = "DeleteImageBuilderCache" ->
            Await("deleteImageBuildCache", deleteImageBuildCacheFixed)
      [] name = "DeleteUnusedImages" -> Await("deleteUnusedImages", deleteUnusedImagesFixed)
      [] name = "GetNetworks" -> Await("fetchNetworks", fetchNetworksFixed)
      [] name = "GetServices" -> Await("fetchServices", fetchServicesFixed)
      [] name = "ServiceLogs" ->
            Await("fetchServiceLog",
                  fetchServiceLogFixed(Get(a, "serviceId"), Get(a, "since"),
                                       Get(a, "timestamps"), Get(a, "tail"),
                                       Undef, Undef))
      [] name = "InspectService" ->
            Await("inspectService", inspectService(Get(a, "serviceId")))
      [] name = "UpdateService" ->
            Await("restartDockerService", restartDockerService(Get(a, "serviceId")))
      [] OTHER -> Throw(UnknownTool(name))

\* every case: text: JSON.stringify(result, null, 2)
FormatSvc(name, a, result) == Return(Content(JSONStringify(result)))

\* the case labels of the switch of each revision
CaseLabelsFixed ==
    {"GetDockerContainers", "CreateDockerContainer", "StartDockerContainer",
     "DeleteDockerContainer", "GetContainerLogs", "UpdateContainer",
     "DeleteUnwantedContainers", "GetImages", "DeleteImageBuilderCache",
     "DeleteUnusedImages", "GetNetworks", "GetServices", "GetServiceLogs"}

CaseLabelsEnv ==
    {"FETCH_DOCKER_CONTAINERS", "CREATE_DOCKER_CONTAINER", "START_DOCKER_CONTAINER",
     "DELETE_DOCKER_CONTAINER", "FETCH_CONTAINER_LOGS", "UPDATE_CONTAINER_RESOURCE_LIMITS",
     "DELETE_STOPPED_CONTAINERS", "FETCH_IMAGES", "DELETE_IMAGE_BUILD_CACHE",
     "DELETE_UNUSED_IMAGES", "FETCH_NETWORKS", "INSPECT_NETWORK", "FETCH_SERVICES",
     "FETCH_SERVICE_LOG"}

CaseLabelsSvc ==
    {"DockerContainers", "CreateDockerContainer", "StartDockerContainer",
     "DeleteDockerContainer", "ContainerLogs", "UpdateContainer",
     "DeleteUnwantedContainers", "GetImages", "DeleteImageBuilderCache",
     "DeleteUnusedImages", "GetNetworks", "GetServices", "ServiceLogs",
     "InspectService", "UpdateService"}

CaseLabels(rv) ==
    CASE rv = "fixed" -> CaseLabelsFixed
      [] rv = "envId" -> CaseLabelsEnv
      [] rv = "svc" -> CaseLabelsSvc

\* --- the catch block of the fixed-environment and service-inspect revisions
\* error.response?.data?.message || error.message || "Cannot process the request"
ErrorMessageOwnFirst(error) ==
    IF error.message # <<>> THEN error.message
    ELSE IF error.hasResponse /\ Truthy(Get(error.data, "message"))
         THEN <<Get(error.data, "message").v>>
         ELSE <<"Cannot process the request">>

ErrorMessage(error) ==
    IF error.hasResponse /\ Truthy(Get(error.data, "message"))
    THEN <<Get(error.data, "message").v>>
    ELSE StrOr(error.message, <<"Cannot process the request">>)

CatchReply(error) == Content(TextOf(<<"Failed: ">> \o ErrorMessage(error)))

\* whether the handler body of the revision is wrapped in try/catch
HasCatch(rv) == rv \in {"fixed", "svc"}

\* an error raised inside the handler: caught and turned into a reply, or
\* (no try/catch) rejected out of the handler
Raised(rv, error) == IF HasCatch(rv) THEN CatchReply(error) ELSE Fault(error)

\* a handler that enters the switch without looking at the arguments object
BeginNoCheck(rv, rq) ==
    CASE rv = "fixed" -> SwitchFixed(rq.name, rq.args)
      [] rv = "envId" -> SwitchEnv(rq.name, rq.args)
      [] rv = "svc" -> SwitchSvc(rq.name, rq.args)

\* a handler that dispatches on the name before it looks at the arguments
\* object
BeginNameFirst(rv, rq) ==
    LET s == CASE rv = "fixed" -> SwitchFixed(rq.name, rq.args)
               [] rv = "envId" -> SwitchEnv(rq.name, rq.args)
               [] rv = "svc" -> SwitchSvc(rq.name, rq.args)
    IN IF s.k = "throw" THEN s
       ELSE IF ~rq.hasArgs THEN Throw(NoArguments(rq.name))
       ELSE s

\* a switch whose default case runs the first tool of the catalog
BeginDefaultCase(rv, rq) ==
    IF ~rq.hasArgs THEN Throw(NoArguments(rq.name))
    ELSE LET name == IF rq.name \in CaseLabels(rv) THEN rq.name
                     ELSE ListTools(rv)[1].name
         IN CASE rv = "fixed" -> SwitchFixed(name, rq.args)
              [] rv = "envId" -> SwitchEnv(name, rq.args)
              [] rv = "svc" -> SwitchSvc(name, rq.args)

\* the handler up to its first await
Begin(rv, rq) ==
    IF ~rq.hasArgs THEN Throw(NoArguments(rq.name))
    ELSE CASE rv = "fixed" -> SwitchFixed(rq.name, rq.args)
           [] rv = "envId" -> SwitchEnv(rq.name, rq.args)
           [] rv = "svc" -> SwitchSvc(rq.name, rq.args)

\* the client function after its await
ClientResult(rv, fn, o) == IF rv = "envId" THEN handleRequest(o) ELSE AwaitFixed(fn, o)

\* the handler from the await to its end
Finish(rv, rq, fn, o) ==
    LET r == ClientResult(rv, fn, o)
    IN IF r.k = "throw" THEN r
       ELSE CASE rv = "fixed" -> FormatFixed(rq.name, rq.args, r.value)
              [] rv = "envId" -> FormatEnv(rq.name, rq.args, r.value)
              [] rv = "svc" -> FormatSvc(rq.name, rq.args, r.value)

\* what leaves the handler
Exit(rv, x) == IF x.k = "return" THEN x.value ELSE Raised(rv, x.error)

\* ---------------------------------------------------------------- requests
\* the values a caller may give an argument; Undef stands for an argument
\* the caller left out (typedArgs.x reads undefined either way)
EnvOpt == {Undef, Str("1"), Str("2")}
IdOpt == {Undef, Str("c1"), Str("c2")}
BoolOpt == {Undef, JTrue, JFalse}
TailOpt == {Undef, Num("50")}
SinceOpt == {Undef, Num("5")}
NameOpt == {Undef, Str("web")}
ObjOpt == {Undef, Obj("{\"80/tcp\":{}}")}
MemOpt == {Undef, Num("64")}
ExtraEnv == {Undef, Str("2")}

\* the argument objects tried for a tool: every combination of its schema's
\* properties (plus an envId the fixed-environment schemas do not declare)
ArgsOf(rv, name) ==
    CASE name \in {"GetDockerContainers", "DockerContainers", "DeleteUnwantedContainers",
                   "GetImages", "DeleteImageBuilderCache", "DeleteUnusedImages",
                   "GetNetworks", "GetServices"} ->
            [envId : ExtraEnv]
      [] name = "CreateDockerContainer" ->
            [containerName : NameOpt, image : NameOpt, exposedPorts : ObjOpt,
             hostConfig : ObjOpt]
      [] name = "StartDockerContainer" -> [containerId : IdOpt, envId : ExtraEnv]
      [] name = "DeleteDockerContainer" ->
            [containerId : IdOpt, force : BoolOpt, envId : ExtraEnv]
      [] name = "GetContainerLogs" ->
            [containerId : IdOpt, stdout : BoolOpt, stderr : BoolOpt, follow : BoolOpt,
             timestamps : BoolOpt, tail : TailOpt]
      [] name = "GetServiceLogs" ->
            [serviceId : IdOpt, stdout : BoolOpt, stderr : BoolOpt, follow : BoolOpt,
             timestamps : BoolOpt, tail : TailOpt]
      [] name = "UpdateContainer" ->
            [containerId : IdOpt, memory : MemOpt, memorySwap : MemOpt,
             restartPolicy : ObjOpt]
      [] name = "ContainerLogs" ->
            [containerId : IdOpt, since : SinceOpt, timestamps : BoolOpt,
             tail : {Undef, Str("50")}]
      [] name = "ServiceLogs" ->
            [serviceId : IdOpt, since : SinceOpt, timestamps : BoolOpt, tail : TailOpt]
      [] name \in {"InspectService", "UpdateService"} -> [serviceId : IdOpt]
      [] name \in {"FETCH_DOCKER_CONTAINERS", "DELETE_STOPPED_CONTAINERS", "FETCH_IMAGES",
                   "DELETE_IMAGE_BUILD_CACHE", "DELETE_UNUSED_IMAGES", "FETCH_NETWORKS",
                   "FETCH_SERVICES"} ->
            [envId : EnvOpt]
      [] name = "CREATE_DOCKER_CONTAINER" ->
            [envId : EnvOpt, containerName : NameOpt, image : NameOpt,
             exposedPorts : ObjOpt, hostConfig : ObjOpt]
      [] name = "START_DOCKER_CONTAINER" -> [envId : EnvOpt, containerId : IdOpt]
      [] name = "DELETE_DOCKER_CONTAINER" ->
            [envId : EnvOpt, containerId : IdOpt, force : BoolOpt]
      [] name = "FETCH_CONTAINER_LOGS" ->
            [envId : EnvOpt, containerId : IdOpt, stdout : BoolOpt, stderr : BoolOpt,
             follow : BoolOpt, timestamps : BoolOpt, tail : TailOpt]
      [] name = "FETCH_SERVICE_LOG" ->
            [envId : EnvOpt, serviceId : IdOpt, stdout : BoolOpt, stderr : BoolOpt,
             follow : BoolOpt, timestamps : BoolOpt, tail : TailOpt]
      [] name = "UPDATE_CONTAINER_RESOURCE_LIMITS" ->
            [envId : EnvOpt, containerId : IdOpt, memory : MemOpt, memorySwap : MemOpt,
             restartPolicy : ObjOpt]
      [] name = "INSPECT_NETWORK" -> [envId : EnvOpt, networkId : IdOpt]
      [] OTHER -> {NoFields, [envId |-> Str("1"), containerId |-> Str("c1")]}

ToolNames(rv) == {ListTools(rv)[i].name : i \in 1 .. Len(ListTools(rv))}

\* names no revision registers
UnknownNames == {"NoSuchTool"}

CallRequest(name, hasArgs, args) ==
    [kind |-> "call", name |-> name, hasArgs |-> hasArgs, args |-> args]

\* the call-tool requests tried against a revision
Requests(rv) ==
    {CallRequest(n, FALSE, NoFields) : n \in ToolNames(rv) \cup UnknownNames}
    \cup UNION {{CallRequest(n, TRUE, a) : a \in ArgsOf(rv, n)} :
                    n \in ToolNames(rv) \cup UnknownNames}

ListRequest == [kind |-> "list", name |-> "", hasArgs |-> FALSE, args |-> NoFields]
NoRequest == [kind |-> "none", name |-> "", hasArgs |-> FALSE, args |-> NoFields]

\* ------------------------------------------------------------ the machine
ConfigOf(rv) ==
    [baseURL |-> "https://portainer.example", apiKey |-> "secret",
     envId |-> IF FixedEnv(rv) THEN Str("1") ELSE Undef, timeout |-> TimeoutMs]

Init ==
    /\ rev \in Revisions
    /\ config = ConfigOf(rev)
    /\ pc = [r \in Reqs |-> "idle"]
    /\ req = [r \in Reqs |-> NoRequest]
    /\ call = [r \in Reqs |-> NoCall]
    /\ ncalls = [r \in Reqs |-> 0]
    /\ resp = [r \in Reqs |-> NoResp]
    /\ out = [r \in Reqs |-> NoOut]
    /\ failures = 0

\* a server that a failed invocation leaves unable to serve: once an
\* invocation has failed, every later request is refused
CallToolBroken(r, rq) ==
    /\ pc[r] = "idle"
    /\ req' = [req EXCEPT ![r] = rq]
    /\ LET b == Begin(rev, rq)
       IN IF b.k = "call" /\ failures = 0
          THEN /\ pc' = [pc EXCEPT ![r] = "awaiting"]
               /\ call' = [call EXCEPT ![r] = b]
               /\ ncalls' = [ncalls EXCEPT ![r] = @ + 1]
               /\ out' = out
          ELSE /\ pc' = [pc EXCEPT ![r] = "done"]
               /\ out' = [out EXCEPT ![r] =
                              IF b.k = "call" THEN Fault(JsError(<<"server closed">>))
                              ELSE Raised(rev, b.error)]
               /\ UNCHANGED <<call, ncalls>>
    /\ UNCHANGED <<rev, config, resp, failures>>

\* a call-tool request arrives: the handler runs to its upstream call, or
\* ends before it (no arguments, unknown tool)
CallTool(r, rq) ==
    /\ pc[r] = "idle"
    /\ req' = [req EXCEPT ![r] = rq]
    /\ LET b == Begin(rev, rq)
       IN IF b.k = "call"
          THEN /\ pc' = [pc EXCEPT ![r] = "awaiting"]
               /\ call' = [call EXCEPT ![r] = b]
               /\ ncalls' = [ncalls EXCEPT ![r] = @ + 1]
               /\ out' = out
          ELSE /\ pc' = [pc EXCEPT ![r] = "done"]
               /\ out' = [out EXCEPT ![r] = Raised(rev, b.error)]
               /\ UNCHANGED <<call, ncalls>>
    /\ UNCHANGED <<rev, config, resp, failures>>

\* a handler that chains a second upstream call after the first one settles
UpstreamSettlesChained(r, o) ==
    /\ pc[r] = "awaiting"
    /\ resp' = [resp EXCEPT ![r] = o]
    /\ IF ncalls[r] < 2
       THEN /\ ncalls' = [ncalls EXCEPT ![r] = @ + 1]
            /\ UNCHANGED <<pc, out>>
       ELSE /\ out' = [out EXCEPT ![r] = Exit(rev, Finish(rev, req[r], call[r].fn, o))]
            /\ pc' = [pc EXCEPT ![r] = "done"]
            /\ UNCHANGED ncalls
    /\ UNCHANGED <<rev, config, req, call, failures>>

\* a handler that keeps the request in a binding shared by all invocations:
\* the reply is formatted from the arguments of another invocation of the
\* same tool that is in the server at the time
UpstreamSettlesShared(r, o) ==
    /\ pc[r] = "awaiting"
    /\ resp' = [resp EXCEPT ![r] = o]
    /\ LET same == {q \in Reqs \ {r} : req[q].kind = "call" /\ req[q].hasArgs
                                          /\ req[q].name = req[r].name}
           rq == IF same = {} THEN req[r] ELSE req[CHOOSE q \in same : TRUE]
       IN out' = [out EXCEPT ![r] = Exit(rev, Finish(rev, rq, call[r].fn, o))]
    /\ pc' = [pc EXCEPT ![r] = "done"]
    /\ UNCHANGED <<rev, config, req, call, ncalls, failures>>

\* the upstream call settles and the handler runs to its end
UpstreamSettles(r, o) ==
    /\ pc[r] = "awaiting"
    /\ resp' = [resp EXCEPT ![r] = o]
    /\ out' = [out EXCEPT ![r] = Exit(rev, Finish(rev, req[r], call[r].fn, o))]
    /\ pc' = [pc EXCEPT ![r] = "done"]
    /\ UNCHANGED <<rev, config, req, call, ncalls, failures>>

\* a catalog that depends on what the server handled before: once an
\* invocation has failed, the last descriptor is no longer listed
ListToolsRequestStateful(r) ==
    /\ pc[r] = "idle"
    /\ req' = [req EXCEPT ![r] = ListRequest]
    /\ out' = [out EXCEPT ![r] =
                   [kind |-> "tools",
                    tools |-> IF failures = 0 THEN ListTools(rev)
                              ELSE SubSeq(ListTools(rev), 1, Len(ListTools(rev)) - 1)]]
    /\ pc' = [pc EXCEPT ![r] = "done"]
    /\ UNCHANGED <<rev, config, call, ncalls, resp, failures>>

\* a list-tools request: the static catalog
ListToolsRequest(r) ==
    /\ pc[r] = "idle"
    /\ req' = [req EXCEPT ![r] = ListRequest]
    /\ out' = [out EXCEPT ![r] = [kind |-> "tools", tools |-> ListTools(rev)]]
    /\ pc' = [pc EXCEPT ![r] = "done"]
    /\ UNCHANGED <<rev, config, call, ncalls, resp, failures>>

\* the invocation ended in failure: a `Failed: ...` reply or an escaped error
FailedOutcome(o) ==
    \/ o.kind = "fault"
    \/ o.kind = "content" /\ o.text.def /\ Len(o.text.s) >= 1 /\ o.text.s[1] = "Failed: "

\* the transport sends the reply (or the fault) and the invocation is over
Deliver(r) ==
    /\ pc[r] = "done"
    /\ failures' = IF FailedOutcome(out[r]) /\ failures < MaxFailures
                   THEN failures + 1 ELSE failures
    /\ pc' = [pc EXCEPT ![r] = "idle"]
    /\ req' = [req EXCEPT ![r] = NoRequest]
    /\ call' = [call EXCEPT ![r] = NoCall]
    /\ ncalls' = [ncalls EXCEPT ![r] = 0]
    /\ resp' = [resp EXCEPT ![r] = NoResp]
    /\ out' = [out EXCEPT ![r] = NoOut]
    /\ UNCHANGED <<rev, config>>

\* one request at a time, every request and outcome of the bounded sets
Next ==
    \/ pc[1] = "idle" /\ \E rq \in Requests(rev) : CallTool(1, rq)
    \/ pc[1] = "awaiting" /\ \E o \in Outcomes(call[1].fn) : UpstreamSettles(1, o)
    \/ ListToolsRequest(1)
    \/ Deliver(1)

Spec == Init /\ [][Next]_vars

\* the pending upstream call of the invocation settles
Settle == pc[1] = "awaiting" /\ \E o \in Outcomes(call[1].fn) : UpstreamSettles(1, o)

\* The client is created with `timeout: 30000`, so a pending request is
\* resolved, rejected by the upstream or rejected by the timeout: a call that
\* is pending does settle. Nothing obliges a caller to send a request, so
\* no other step is fair.
SpecLive == Spec /\ WF_vars(Settle)

\* --- several requests in flight: the transport may deliver a request while
\* others are suspended at their upstream call. A narrower set of requests
\* and outcomes keeps the product of the slots small.
DeleteName(rv) == IF rv = "envId" THEN "DELETE_DOCKER_CONTAINER" ELSE "DeleteDockerContainer"
StartName(rv) == IF rv = "envId" THEN "START_DOCKER_CONTAINER" ELSE "StartDockerContainer"

ConcRequests(rv) ==
    {CallRequest(DeleteName(rv), TRUE, a) :
        a \in [envId : {Str("1")}, containerId : {Undef, Str("c1")}, force : BoolOpt]}
    \cup {CallRequest(StartName(rv), TRUE, a) :
            a \in [envId : {Str("1")}, containerId : {Undef, Str("c1")}]}
    \cup {CallRequest("NoSuchTool", TRUE, NoFields),
          CallRequest(DeleteName(rv), FALSE, NoFields)}

ConcOutcomes(fn) ==
    {o \in Outcomes(fn) :
        \/ o.k = "ok"
        \/ /\ o.k = "error"
           /\ \/ o.error.hasResponse /\ o.error.status = "404"
                 /\ o.error.data = [message |-> Str("No such container")]
              \/ o.error.message = <<"timeout of 30000ms exceeded">>}

NextConcurrent ==
    \E r \in Reqs :
        \/ pc[r] = "idle" /\ \E rq \in ConcRequests(rev) : CallTool(r, rq)
        \/ pc[r] = "awaiting" /\ \E o \in ConcOutcomes(call[r].fn) : UpstreamSettles(r, o)
        \/ ListToolsRequest(r)
        \/ Deliver(r)

SpecConcurrent == Init /\ [][NextConcurrent]_vars

\* =================================================================== claims
Done(r) == pc[r] = "done" /\ req[r].kind = "call"

\* the reply is { content: [{ type: "text", text }] } with text a string
IsText(o) == o.kind = "content" /\ o.text.def

\* the reply is the text `Failed: ...`
IsFailed(o) == IsText(o) /\ Len(o.text.s) >= 1 /\ o.text.s[1] = "Failed: "

\* an error was raised while the slot's invocation ran
ErrorRaised(r) ==
    \/ ~req[r].hasArgs
    \/ req[r].name \notin ToolNames(rev)
    \/ resp[r].k = "error"

\* C1: every call-tool invocation ends in a reply, never in an error that
\* leaves the handler, and when an error was raised the reply is the single
\* text item `Failed: <message>`.
C1_NoErrorEscapes ==
    \A r \in Reqs :
        Done(r) =>
            /\ out[r].kind # "fault"
            /\ ErrorRaised(r) => IsFailed(out[r])

\* C2: a call-tool request without an arguments object is answered with a
\* text starting `Failed:`; the error does not leave the dispatcher.
C2_NoArgumentsFails ==
    \A r \in Reqs :
        (Done(r) /\ ~req[r].hasArgs) => IsFailed(out[r])

\* C3: a call-tool request with arguments and an unregistered name is
\* answered with the text `Failed: Unknown tool: <name>`.
C3_UnknownToolFails ==
    \A r \in Reqs :
        (Done(r) /\ req[r].hasArgs /\ req[r].name \notin ToolNames(rev)) =>
            out[r] = Content(TextOf(<<"Failed: ", "Unknown tool: ", req[r].name>>))

\* the descriptor list-tools gives for a tool name
Descriptor(rv, name) ==
    LET tools == ListTools(rv)
    IN tools[CHOOSE i \in 1 .. Len(tools) : tools[i].name = name]

Range(f) == {f[i] : i \in DOMAIN f}

\* C4: an upstream call is issued only for requests that carry every
\* argument the tool's schema declares required.
C4_RequiredValidated ==
    \A r \in Reqs :
        (req[r].kind = "call" /\ ncalls[r] > 0) =>
            \A k \in Range(Descriptor(rev, req[r].name).required) :
                Get(req[r].args, k) # Undef

\* the error the catch block received for a finished invocation
Caught(r) ==
    IF ~req[r].hasArgs THEN NoArguments(req[r].name)
    ELSE IF req[r].name \notin ToolNames(rev) THEN UnknownTool(req[r].name)
    ELSE resp[r].error

UpstreamMessage(e) == e.hasResponse /\ "message" \in DOMAIN e.data /\ e.data.message.v # ""

\* C5: the message after `Failed: ` of a caught error is the upstream
\* response body's message when it has a non-empty one, else the error's own
\* message when non-empty, else "Cannot process the request".
C5_MessagePreference ==
    \A r \in Reqs :
        (Done(r) /\ ErrorRaised(r) /\ out[r].kind = "content") =>
            LET e == Caught(r)
            IN /\ UpstreamMessage(e) => out[r].text.s = <<"Failed: ", e.data.message.v>>
               /\ (~UpstreamMessage(e) /\ e.message # <<>>) =>
                      out[r].text.s = <<"Failed: ">> \o e.message
               /\ (~UpstreamMessage(e) /\ e.message = <<>>) =>
                      out[r].text.s = <<"Failed: ", "Cannot process the request">>

\* an upstream rejection whose body carries a message: that message wins over
\* the error's own "Request failed with status code 404"
C5_Witness ==
    \E r \in Reqs :
        /\ Done(r) /\ resp[r].k = "error" /\ UpstreamMessage(resp[r].error)
        /\ resp[r].error.message # <<>>
        /\ out[r] = Content(TextOf(<<"Failed: ", "No such container">>))

\* the tools and required arguments of the interface table, and the name each
\* revision's constants give the tool ("" when the revision has no such name)
ToolTable ==
    { [fixed |-> "GetDockerContainers", envId |-> "FETCH_DOCKER_CONTAINERS",
       svc |-> "DockerContainers", required |-> <<"envId">>],
      [fixed |-> "CreateDockerContainer", envId |-> "CREATE_DOCKER_CONTAINER",
       svc |-> "CreateDockerContainer", required |-> <<"envId", "containerName", "image">>],
      [fixed |-> "StartDockerContainer", envId |-> "START_DOCKER_CONTAINER",
       svc |-> "StartDockerContainer", required |-> <<"envId", "containerId">>],
      [fixed |-> "DeleteDockerContainer", envId |-> "DELETE_DOCKER_CONTAINER",
       svc |-> "DeleteDockerContainer", required |-> <<"envId", "containerId">>],
      [fixed |-> "GetContainerLogs", envId |-> "FETCH_CONTAINER_LOGS",
       svc |-> "ContainerLogs", required |-> <<"envId", "containerId">>],
      [fixed |-> "UpdateContainer", envId |-> "UPDATE_CONTAINER_RESOURCE_LIMITS",
       svc |-> "UpdateContainer", required |-> <<"envId", "containerId">>],
      [fixed |-> "DeleteUnwantedContainers", envId |-> "DELETE_STOPPED_CONTAINERS",
       svc |-> "DeleteUnwantedContainers", required |-> <<"envId">>],
      [fixed |-> "GetImages", envId |-> "FETCH_IMAGES",
       svc |-> "GetImages", required |-> <<"envId">>],
      [fixed |-> "DeleteImageBuilderCache", envId |-> "DELETE_IMAGE_BUILD_CACHE",
       svc |-> "DeleteImageBuilderCache", required |-> <<"envId">>],
      [fixed |-> "DeleteUnusedImages", envId |-> "DELETE_UNUSED_IMAGES",
       svc |-> "DeleteUnusedImages", required |-> <<"envId">>],
      [fixed |-> "GetNetworks", envId |-> "FETCH_NETWORKS",
       svc |-> "GetNetworks", required |-> <<"envId">>],
      [fixed |-> "", envId |-> "INSPECT_NETWORK",
       svc |-> "", required |-> <<"envId", "networkId">>],
      [fixed |-> "GetServices", envId |-> "FETCH_SERVICES",
       svc |-> "GetServices", required |-> <<"envId">>],
      [fixed |-> "GetServiceLogs", envId |-> "FETCH_SERVICE_LOG",
       svc |-> "ServiceLogs", required |-> <<"envId", "serviceId">>] }

\* C6: for every tool of the interface table the list-tools reply holds
\* exactly one descriptor of that name, whose required list is the table's.
C6_CatalogMatchesTable ==
    \A r \in Reqs :
        (pc[r] = "done" /\ req[r].kind = "list") =>
            \A row \in ToolTable :
                LET hits == {i \in 1 .. Len(out[r].tools) : out[r].tools[i].name = row[rev]}
                IN /\ Cardinality(hits) = 1
                   /\ \A i \in hits : out[r].tools[i].required = row.required

\* C7: when the upstream call of a registered tool succeeds, the reply is a
\* content list of one text item whose text is a defined string.
C7_SuccessIsText ==
    \A r \in Reqs :
        (Done(r) /\ resp[r].k = "ok") => IsText(out[r])

\* the tokens found `off` places after each occurrence of `label`, in order
RECURSIVE After(_, _, _)
After(tokens, label, off) ==
    IF Len(tokens) = 0 THEN <<>>
    ELSE IF Head(tokens) = label /\ Len(tokens) > off
         THEN <<tokens[1 + off]>> \o After(Tail(tokens), label, off)
         ELSE After(Tail(tokens), label, off)

Ids(list) == [i \in 1 .. Len(list) |-> list[i].Id]
States(list) == [i \in 1 .. Len(list) |-> list[i].State]
\* the name of a container: its first name
NamedOnly(list) == SelectSeq(list, LAMBDA c : Len(c.Names) > 0)
FirstNames(list) == [i \in 1 .. Len(NamedOnly(list)) |-> NamedOnly(list)[i].Names[1]]

\* C8: the reply to `fetch containers` carries, for the list upstream
\* returned, every container's identifier, name and state exactly once and
\* in upstream's order.
C8_ContainersReflected ==
    \A r \in Reqs :
        (Done(r) /\ call[r].fn = "fetchDockerContainers" /\ resp[r].k = "ok") =>
            LET list == resp[r].data.list
            IN CASE rev = "fixed" ->
                       /\ IsText(out[r])
                       /\ After(out[r].text.s, "ContainerId: ", 1) = Ids(list)
                       /\ After(out[r].text.s, ", State: ", 1) = States(list)
                       /\ SelectSeq(After(out[r].text.s, ", Name: ", 1),
                                    LAMBDA n : n # "unknown") = FirstNames(list)
                       /\ Len(After(out[r].text.s, ", Name: ", 1)) = Len(list)
                 [] rev = "envId" ->
                       /\ out[r].kind = "result"
                       /\ out[r].value.t = "containers"
                       /\ Ids(out[r].value.list) = Ids(list)
                       /\ States(out[r].value.list) = States(list)
                       /\ [i \in 1 .. Len(list) |-> out[r].value.list[i].Names]
                              = [i \in 1 .. Len(list) |-> list[i].Names]
                 [] rev = "svc" ->
                       /\ IsText(out[r])
                       /\ After(out[r].text.s, "\"Id\": ", 2) = Ids(list)
                       /\ After(out[r].text.s, "\"State\": ", 2) = States(list)
                       /\ SelectSeq(After(out[r].text.s, "\"Names\": ", 3),
                                    LAMBDA n : n # "\"State\": ") = FirstNames(list)
                       /\ Len(After(out[r].text.s, "\"Names\": ", 1)) = Len(list)

\* two different containers came back and the reply lists both
C8_Witness ==
    \E r \in Reqs :
        /\ Done(r) /\ call[r].fn = "fetchDockerContainers" /\ resp[r].k = "ok"
        /\ rev = "fixed"
        /\ Len(resp[r].data.list) = 2
        /\ resp[r].data.list[1].Id = "b" /\ resp[r].data.list[2].Id = "a"
        /\ resp[r].data.list[1].State # resp[r].data.list[2].State
        /\ After(out[r].text.s, "ContainerId: ", 1) = <<"b", "a">>

LogDefaults ==
    [stdout |-> JTrue, stderr |-> JTrue, follow |-> JFalse, timestamps |-> JFalse,
     tail |-> Num("10")]

\* C10: the upstream request of `fetch container logs` carries, for each
\* optional argument the caller left out, that argument's default
\* (stdout=true, stderr=true, follow=false, timestamps=false, tail=10),
\* whatever the other arguments are.
C10_LogDefaults ==
    \A r \in Reqs :
        (req[r].kind = "call" /\ call[r].fn = "fetchContainerLogs") =>
            \A p \in DOMAIN LogDefaults :
                Get(req[r].args, p) = Undef => call[r].http.params[p] = LogDefaults[p]

\* slot r1 deletes a container without `force`, slot r2 the same container
\* with force=false
DeletePair(r1, r2) ==
    /\ req[r1].kind = "call" /\ req[r2].kind = "call"
    /\ call[r1].fn = "deleteDockerContainer" /\ call[r2].fn = "deleteDockerContainer"
    /\ Get(req[r1].args, "force") = Undef
    /\ Get(req[r2].args, "force") = JFalse
    /\ \A k \in {"envId", "containerId"} : Get(req[r1].args, k) = Get(req[r2].args, k)

\* C9: `delete container` without `force` issues the upstream request of the
\* same invocation with force=false (same path, query force=false), and
\* under the same upstream outcome gives the same reply.
C9_ForceDefaultsFalse ==
    \A r1, r2 \in Reqs :
        DeletePair(r1, r2) =>
            /\ call[r1].http = call[r2].http
            /\ call[r1].http.params = [force |-> JFalse]
            /\ (pc[r1] = "done" /\ pc[r2] = "done" /\ resp[r1] = resp[r2]) =>
                   out[r1] = out[r2]

C9_Witness ==
    \E r1, r2 \in Reqs :
        /\ DeletePair(r1, r2)
        /\ pc[r1] = "done" /\ pc[r2] = "done"
        /\ resp[r1].k = "ok" /\ resp[r2].k = "ok"
        /\ Get(req[r1].args, "containerId") = Str("c1")

\* upstream answered the slot's call with the status
Rejected(r, status) ==
    /\ Done(r) /\ resp[r].k = "error"
    /\ resp[r].error.hasResponse /\ resp[r].error.status = status

\* C11: when upstream answers a `start container` call with HTTP 404, the
\* reply is the text `Failed: Portainer API error: 404 - <JSON of the
\* response body>` and the error does not leave the handler.
C11_StartNotFound ==
    \A r \in Reqs :
        (Rejected(r, "404") /\ call[r].fn = "startDockerContainer") =>
            out[r] = Content(TextOf(<<"Failed: ", "Portainer API error: ", "404", " - ">>
                                    \o JsonOfFields(resp[r].error.data)))

\* the request of the slot was sent and no response arrived
Unanswered(r) ==
    /\ Done(r) /\ resp[r].k = "error"
    /\ resp[r].error.isAxios /\ ~resp[r].error.hasResponse /\ resp[r].error.hasRequest

FetchOperations ==
    {"fetchDockerContainers", "fetchImages", "fetchNetworks", "fetchServices",
     "fetchContainerLogs", "fetchServiceLog"}

\* C12: when the request of a fetch operation was sent and no response
\* arrived (network failure, client timeout), the reply is the text
\* `Failed: No response from Portainer API: <transport error>`.
C12_FetchUnanswered ==
    \A r \in Reqs :
        (Unanswered(r) /\ call[r].fn \in FetchOperations) =>
            out[r] = Content(TextOf(<<"Failed: ", "No response from Portainer API: ">>
                                    \o resp[r].error.message))

\* the client functions whose source the repository holds (the service-inspect
\* revision imports inspectService and restartDockerService from a client
\* that is not part of it)
InRepository(fn) == fn \notin {"inspectService", "restartDockerService"}

Registered(r) == req[r].kind = "call" /\ req[r].hasArgs /\ req[r].name \in ToolNames(rev)

\* C13: an invocation issues at most one upstream HTTP call; an invocation
\* of a registered tool with an arguments object issues exactly one, is
\* suspended only while that call is pending, and ends when it settles.
C13_OneUpstreamCall ==
    \A r \in Reqs :
        (req[r].kind = "call" /\ InRepository(call[r].fn)) =>
            /\ ncalls[r] <= 1
            /\ Registered(r) => ncalls[r] = 1
            /\ ~Registered(r) => ncalls[r] = 0
            /\ pc[r] = "awaiting" <=> (ncalls[r] = 1 /\ resp[r] = NoResp)
            /\ pc[r] = "done" <=> (ncalls[r] = 0 \/ resp[r] # NoResp)

\* a registered tool was invoked with arguments, its one call was answered
\* and the invocation is over
C13_Witness ==
    \E r \in Reqs :
        /\ Done(r) /\ Registered(r) /\ InRepository(call[r].fn)
        /\ ncalls[r] = 1 /\ resp[r].k = "ok"
        /\ call[r].http.method = "POST"

\* the slot's upstream call failed: rejected, unanswered, or not set up
UpstreamFailed(r) == req[r].kind = "call" /\ resp[r].k = "error"

\* the invocation made no call after the one that failed
NotReattempted(r) == ncalls[r] = 1 /\ pc[r] = "done"

\* the reply is one `Failed: <message>` text
ReportedInReply(r) == IsFailed(out[r]) /\ After(out[r].text.s, "Failed: ", 0) = <<"Failed: ">>

\* C14: after the upstream call of an invocation has failed, the invocation
\* issues no further upstream call and its reply reports the failure once,
\* as one `Failed: <message>` text.
C14_NoRetry ==
    \A r \in Reqs :
        UpstreamFailed(r) => (NotReattempted(r) /\ ReportedInReply(r))

\* what a server that has handled nothing before does with a request: the
\* upstream call it issues, and its reply once that call has settled as o
CallAlone(rq) == LET b == Begin(rev, rq) IN IF b.k = "call" THEN b ELSE NoCall

ReplyAlone(rq, o) ==
    LET b == Begin(rev, rq)
    IN IF b.k = "call" THEN Exit(rev, Finish(rev, rq, b.fn, o)) ELSE Raised(rev, b.error)

\* C15: whatever invocations were handled before, failed ones included, an
\* invocation issues the upstream call and ends with the outcome that its
\* tool name, arguments and upstream outcome give on a server that has
\* handled nothing before; the configuration it reads is the start-up one.
C15_IndependentOfHistory ==
    \A r \in Reqs :
        /\ req[r].kind = "call" =>
               /\ call[r] = CallAlone(req[r])
               /\ pc[r] = "done" => out[r] = ReplyAlone(req[r], resp[r])
        /\ config = ConfigOf(rev)

\* after MaxFailures failed invocations a registered tool is served and
\* succeeds
C15_Witness ==
    \E r \in Reqs :
        /\ failures = MaxFailures
        /\ Done(r) /\ Registered(r) /\ resp[r].k = "ok"
        /\ ~FailedOutcome(out[r])
        /\ out[r] = ReplyAlone(req[r], resp[r])

\* another request is in the server while slot r's is
Overlaps(r, q) == q # r /\ req[r].kind = "call" /\ req[q].kind = "call"

\* C16: with several call-tool requests in the server at once, in whatever
\* order their upstream calls settle, each request issues the upstream
\* request (path, query, body) and ends with the outcome it has when run
\* alone; two requests that are equal and get the same upstream outcome end
\* with the same reply; the client configuration stays as at start-up.
C16_ConcurrentIndependence ==
    /\ \A r, q \in Reqs :
           Overlaps(r, q) =>
               /\ call[r] = CallAlone(req[r])
               /\ pc[r] = "done" => out[r] = ReplyAlone(req[r], resp[r])
               /\ (req[r] = req[q] /\ resp[r] = resp[q] /\ pc[r] = "done" /\ pc[q] = "done")
                      => out[r] = out[q]
    /\ config = ConfigOf(rev)

\* one request has its reply while another, for the same tool with other
\* arguments, is suspended at its upstream call
C16_Witness ==
    \E r, q \in Reqs :
        /\ Overlaps(r, q)
        /\ pc[r] = "done" /\ resp[r].k = "ok"
        /\ pc[q] = "awaiting"
        /\ req[q].name = req[r].name /\ req[q].args # req[r].args
        /\ out[r] = ReplyAlone(req[r], resp[r])

\* the paths below an environment that the client functions address
DockerPaths ==
    {"/docker/containers/json", "/docker/containers/create", "/docker/containers/",
     "/docker/containers/prune", "/docker/images/json", "/docker/images/prune",
     "/docker/networks", "/docker/networks/", "/docker/services", "/docker/services/"}

\* the environment an invocation addresses: its envId argument, or the
\* environment of the process configuration
EnvironmentOf(r) == IF FixedEnv(rev) THEN config.envId ELSE Get(req[r].args, "envId")

\* C17: every upstream request has the path /api/endpoints/<environment
\* id>/docker/... and carries the header X-API-Key with the configured key.
C17_PathAndKey ==
    \A r \in Reqs :
        (ncalls[r] > 0 /\ InRepository(call[r].fn)) =>
            /\ Len(call[r].http.path) >= 3
            /\ call[r].http.path[1] = "/api/endpoints/"
            /\ call[r].http.path[2] = Tpl(EnvironmentOf(r))
            /\ call[r].http.path[3] \in DockerPaths
            /\ DOMAIN call[r].http.headers = {"X-API-Key"}
            /\ call[r].http.headers["X-API-Key"] = ConfigOf(rev).apiKey

\* a log request for environment 2, container c1, went out with the key
C17_Witness ==
    \E r \in Reqs :
        /\ ncalls[r] = 1 /\ call[r].fn = "fetchContainerLogs"
        /\ call[r].http.path = <<"/api/endpoints/", "2", "/docker/containers/", "c1", "/logs">>
        /\ call[r].http.headers["X-API-Key"] = "secret"

\* the optional object arguments of `create container` and the field of the
\* upstream request body each one becomes
CreateOptional == {<<"exposedPorts", "ExposedPorts">>, <<"hostConfig", "HostConfig">>}

\* C18: the upstream request of `create container` is the POST to
\* .../docker/containers/create whose ExposedPorts / HostConfig field is {}
\* when the caller left exposedPorts / hostConfig out and is the supplied
\* object otherwise.
C18_CreateDefaults ==
    \A r \in Reqs :
        (ncalls[r] > 0 /\ call[r].fn = "createDockerContainer") =>
            /\ call[r].http.method = "POST"
            /\ call[r].http.path[3] = "/docker/containers/create"
            /\ \A f \in CreateOptional :
                   call[r].http.data[f[2]] =
                       IF Get(req[r].args, f[1]) = Undef THEN EmptyObj
                       ELSE Get(req[r].args, f[1])

\* exposedPorts left out, hostConfig supplied
C18_Witness ==
    \E r \in Reqs :
        /\ ncalls[r] = 1 /\ call[r].fn = "createDockerContainer"
        /\ Get(req[r].args, "exposedPorts") = Undef
        /\ Get(req[r].args, "hostConfig") = Obj("{\"80/tcp\":{}}")
        /\ call[r].http.data.ExposedPorts = EmptyObj
        /\ call[r].http.data.HostConfig = Obj("{\"80/tcp\":{}}")

\* the message the three failure kinds prescribe for a failed request
ClassifiedMessage(e) ==
    IF e.hasResponse
    THEN <<"Portainer API error: ", e.status, " - ">> \o JsonOfFields(e.data)
    ELSE IF e.hasRequest
         THEN <<"No response from Portainer API: ">> \o e.message
         ELSE <<"Error setting up request to Portainer API: ">> \o e.message

\* C19: the error a client function raises for a failed request is of the
\* kind the failure selects: `Portainer API error: <status> - <JSON body>`
\* when a response came, `No response from Portainer API: <transport
\* error>` when the request went out unanswered, `Error setting up request
\* to Portainer API: <setup error>` otherwise; nothing else is raised.
C19_ThreeKinds ==
    \A r \in Reqs :
        (UpstreamFailed(r) /\ InRepository(call[r].fn)) =>
            LET raised == ClientResult(rev, call[r].fn, resp[r])
            IN /\ raised.k = "throw"
               /\ raised.error = JsError(ClassifiedMessage(resp[r].error))

\* C20: a client function whose request got a 2xx response returns the
\* response body as it came, and one whose request failed raises; it
\* returns nothing else.
C20_ReturnsBodyOrRaises ==
    \A r \in Reqs :
        (req[r].kind = "call" /\ resp[r] # NoResp /\ InRepository(call[r].fn)) =>
            LET result == ClientResult(rev, call[r].fn, resp[r])
            IN IF resp[r].k = "ok" THEN result = Return(resp[r].data)
               ELSE result.k = "throw"

\* C21: an invocation without an arguments object issues no upstream HTTP
\* call at any point between its arrival and its reply (or fault): it is
\* never suspended at a call and ends with no call made.
C21_NoArgumentsNoCall ==
    \A r \in Reqs :
        (req[r].kind = "call" /\ ~req[r].hasArgs) =>
            /\ ncalls[r] = 0
            /\ call[r] = NoCall
            /\ resp[r] = NoResp
            /\ pc[r] = "done"
            /\ out[r] # NoOut

\* a registered tool was invoked without arguments and the invocation ended
C21_Witness ==
    \E r \in Reqs :
        /\ Done(r) /\ ~req[r].hasArgs /\ req[r].name \in ToolNames(rev)
        /\ ncalls[r] = 0
        /\ out[r] = Raised(rev, NoArguments(req[r].name))

\* the argument that names the resource a client function addresses
ResourceKey(fn) ==
    CASE fn \in {"startDockerContainer", "deleteDockerContainer", "fetchContainerLogs",
                 "updateContainerResourceLimits"} -> "containerId"
      [] fn = "inspectNetwork" -> "networkId"
      [] fn = "fetchServiceLog" -> "serviceId"
      [] OTHER -> ""

\* the resource identifier in the path is the one the invocation supplied
OwnResource(r) ==
    LET key == ResourceKey(call[r].fn)
    IN (key # "" /\ Get(req[r].args, key) # Undef) =>
           /\ Len(call[r].http.path) >= 4
           /\ call[r].http.path[4] = Tpl(Get(req[r].args, key))

\* the environment identifier in the path is the one the invocation supplied
OwnEnvironment(r) ==
    Get(req[r].args, "envId") # Undef =>
        call[r].http.path[2] = Tpl(Get(req[r].args, "envId"))

\* C22: the environment identifier and the resource identifier (container,
\* network or service id) in the path of an invocation's upstream request
\* are the ones supplied in that invocation's arguments.
C22_OwnIdentifiers ==
    \A r \in Reqs :
        (ncalls[r] > 0 /\ InRepository(call[r].fn)) =>
            (OwnEnvironment(r) /\ OwnResource(r))

\* the upstream request `delete image build cache` issues for the
\* environment slot r addresses
BuildCacheRequest(r) ==
    IF FixedEnv(rev) THEN deleteImageBuildCacheFixed
    ELSE deleteImageBuildCache(Get(req[r].args, "envId"))

\* C23: the upstream request `delete unused images` issues differs, in
\* method, path or parameters, from the one `delete image build cache`
\* issues for the same environment.
C23_DistinctPrunes ==
    \A r \in Reqs :
        (ncalls[r] > 0 /\ call[r].fn = "deleteUnusedImages") =>
            LET mine == call[r].http
                other == BuildCacheRequest(r)
            IN \/ mine.method # other.method
               \/ mine.path # other.path
               \/ mine.params # other.params
               \/ mine.data # other.data

\* slot r takes up a list-tools request in this step
ListArrives(r) == req[r].kind # "list" /\ req'[r].kind = "list"

\* C24: handling a list-tools request yields the revision's ordered list of
\* descriptors, the same whatever call-tool requests were handled before or
\* are in the server at the time, issues no upstream call and changes
\* nothing but the request's own slot.
C24_ListToolsStatic ==
    [][\A r \in Reqs :
          ListArrives(r) =>
              /\ out'[r] = [kind |-> "tools", tools |-> ListTools(rev)]
              /\ pc'[r] = "done"
              /\ UNCHANGED <<rev, config, call, ncalls, resp, failures>>
              /\ \A q \in Reqs \ {r} :
                     pc'[q] = pc[q] /\ req'[q] = req[q] /\ out'[q] = out[q]]_vars

\* a list-tools request was answered with the full catalog after failed
\* invocations and while a call-tool request is suspended at its call
C24_Witness ==
    \E r, q \in Reqs :
        /\ pc[r] = "done" /\ req[r].kind = "list"
        /\ out[r] = [kind |-> "tools", tools |-> ListTools(rev)]
        /\ ncalls[r] = 0
        /\ failures >= 1
        /\ pc[q] = "awaiting"

\* the invocation ended by returning a value from the handler
IsReply(o) == o.kind \in {"content", "result"}

\* no invocation stays suspended at its upstream call
Terminates == \A r \in Reqs : (pc[r] = "awaiting") ~> (pc[r] = "done")

\* a log fetch that follows the stream does not stay suspended either
FollowTerminates ==
    (pc[1] = "awaiting" /\ call[1].fn \in {"fetchContainerLogs", "fetchServiceLog"}
        /\ call[1].http.params.follow = JTrue) ~> (pc[1] = "done")

\* C25: every call-tool invocation eventually completes, and completes with
\* a reply: an invocation suspended at its upstream call ends, and an
\* invocation that has ended has returned a reply from the handler.
C25_CompletesWithReply ==
    /\ Terminates
    /\ [](\A r \in Reqs : Done(r) => IsReply(out[r]))

\* the message of the error the invocation ended with: the text after
\* `Failed: ` of the reply, or the message of the escaped error
FailureMessage(o) ==
    IF o.kind = "fault" THEN o.error.message
    ELSE IF IsFailed(o) THEN SubSeq(o.text.s, 2, Len(o.text.s))
    ELSE <<>>

\* the request has no arguments object and names no registered tool
BothMissing(r) ==
    req[r].kind = "call" /\ ~req[r].hasArgs /\ req[r].name \notin ToolNames(rev)

\* C26: a request with no arguments object and an unregistered tool name
\* fails with `No arguments provided for tool: <name>`, not with
\* `Unknown tool: <name>`.
C26_NoArgumentsFirst ==
    \A r \in Reqs :
        BothMissing(r) =>
            /\ pc[r] = "done"
            /\ FailureMessage(out[r]) = <<"No arguments provided for tool: ", req[r].name>>
            /\ FailureMessage(out[r]) # <<"Unknown tool: ", req[r].name>>

\* an invocation of an unregistered name without arguments has ended
C26_Witness ==
    \E r \in Reqs :
        /\ BothMissing(r) /\ Done(r)
        /\ req[r].name = "NoSuchTool"
        /\ FailureMessage(out[r])[1] = "No arguments provided for tool: "

\* the upstream call of the slot's invocation returned 2xx with a body of
\* the shape of its operation
UpstreamSucceeded(r) ==
    /\ Done(r) /\ req[r].name \in ToolNames(rev)
    /\ resp[r].k = "ok" /\ resp[r].data \in Bodies(call[r].fn)

\* C27: for every registered tool, when the upstream call returns 2xx with
\* a body of the shape of the operation, the reply of the invocation does
\* not start with `Failed:`.
C27_SuccessNotFailed ==
    \A r \in Reqs :
        (UpstreamSucceeded(r) /\ InRepository(call[r].fn)) => ~IsFailed(out[r])

LogOperations == {"fetchContainerLogs", "fetchServiceLog"}

\* the properties of the tool's input schema that are log parameters: all
\* but the identifiers that go into the path
LogArguments(rv, name) ==
    Descriptor(rv, name).props \ {"envId", "containerId", "serviceId"}

\* argument p of the slot's request is in the upstream request as the query
\* parameter p with the caller's value
ReachesQuery(r, p) ==
    /\ p \in DOMAIN call[r].http.params
    /\ call[r].http.params[p] = Get(req[r].args, p)

\* C28: for the log tools, every argument named in the tool's input schema
\* that the caller supplies is in the upstream request as the query
\* parameter of the same name with the same value.
C28_LogArgumentsByName ==
    \A r \in Reqs :
        (req[r].kind = "call" /\ ncalls[r] > 0 /\ call[r].fn \in LogOperations) =>
            \A p \in LogArguments(rev, req[r].name) :
                Get(req[r].args, p) # Undef => ReachesQuery(r, p)

\* every name a revision lists or has a case for, and the names of none
AllNames ==
    UNION {ToolNames(rv) \cup CaseLabels(rv) : rv \in Revisions} \cup UnknownNames

\* the switch of the revision has a case for the name: called with an
\* arguments object, the handler does not end in the default case
HasCase(rv, name) ==
    Begin(rv, CallRequest(name, TRUE, NoFields)) # Throw(UnknownTool(name))

\* C29: the names list-tools returns are the names the switch of call-tool
\* has a case for, and an invocation of a listed name with an arguments
\* object does not end in `Unknown tool`.
C29_CatalogMatchesSwitch ==
    /\ ToolNames(rev) = CaseLabels(rev)
    /\ \A n \in AllNames : n \in ToolNames(rev) <=> HasCase(rev, n)
    /\ \A r \in Reqs :
           (Done(r) /\ req[r].hasArgs /\ req[r].name \in ToolNames(rev)) =>
               FailureMessage(out[r]) # <<"Unknown tool: ", req[r].name>>

\* the last tool of the catalog was invoked with an arguments object and
\* its case issued the upstream call
C29_Witness ==
    \E r \in Reqs :
        /\ Done(r) /\ req[r].hasArgs
        /\ req[r].name = ListTools(rev)[Len(ListTools(rev))].name
        /\ ncalls[r] = 1 /\ resp[r] # NoResp

\* the slot's request is a call-tool request for a name that is not registered
Unregistered(r) == req[r].kind = "call" /\ req[r].name \notin ToolNames(rev)

\* C30: a call-tool request whose name matches no registered tool causes
\* no upstream call, whatever arguments it carries: it is never suspended,
\* no request is built for it and no response is received for it.
C30_UnknownNoCall ==
    \A r \in Reqs :
        Unregistered(r) =>
            /\ pc[r] # "awaiting"
            /\ ncalls[r] = 0 /\ call[r] = NoCall /\ resp[r] = NoResp

\* an invocation of an unregistered name that carried arguments has ended
\* with the unknown-tool error
C30_Witness ==
    \E r \in Reqs :
        /\ Unregistered(r) /\ Done(r) /\ req[r].hasArgs
        /\ \E k \in DOMAIN req[r].args : req[r].args[k] # Undef
        /\ FailureMessage(out[r]) = <<"Unknown tool: ", req[r].name>>
        /\ ncalls[r] = 0

====
